---- MODULE Spec2Model ----
(***************************************************************************)
(* manifest-splitter (src/main.go): decode manifest files into resources,  *)
(* ask the API server whether each kind is namespaced, validate, and write *)
(* each resource under <output>/{namespaces/<ns>,cluster,system}/.         *)
(***************************************************************************)
EXTENDS Integers, Sequences, FiniteSets, TLC

\* ------------------------------------------------------------------ bounds

\* documents the decoder yields over the whole run (all input files together)
MaxDocs == 2
\* items of one List document
MaxItems == 2
\* calls of validateResource on one resource, in the specification that
\* applies it alone
MaxPasses == 2

\* ------------------------------------------------------------- documents

jsonFormat == "json"
yamlFormat == "yaml"
Formats == {jsonFormat, yamlFormat}

\* the input files given on the command line (flag.Args()): two files of
\* different directories with the same base name up to the extension, and
\* what their first bytes may be taken for (a YAML stream, or either)
Inputs ==
    << [dir |-> "d1", stem |-> "a", ext |-> "yaml", streams |-> {yamlFormat}],
       [dir |-> "d2", stem |-> "a", ext |-> "json", streams |-> Formats] >>

\* filepath.Base, then strings.TrimSuffix(base, filepath.Ext(base))
InputFileNameStripped(path) == path.stem

\* schema.ParseGroupVersion(apiVersion).Group: the text before the "/", the
\* empty group when there is none
GroupOf(apiVersion) ==
    CASE apiVersion = "v1" -> ""
      [] apiVersion = "apps/v1" -> "apps"
      [] apiVersion = "extensions/v1beta1" -> "extensions"
      [] apiVersion = "configmanagement.gke.io/v1" -> "configmanagement.gke.io"
      [] OTHER -> apiVersion

\* an unstructured.Unstructured: the fields the program reads.  isList is
\* obj.IsList(): the object carries an "items" array.
Obj(av, k, n, ns) ==
    [apiVersion |-> av, kind |-> k, name |-> n, namespace |-> ns,
     isList |-> FALSE, items |-> << >>]

ListObj(av, k, n, ns, its) ==
    [apiVersion |-> av, kind |-> k, name |-> n, namespace |-> ns,
     isList |-> TRUE, items |-> its]

\* obj.GroupVersionKind().GroupKind()
GroupKind(obj) == << GroupOf(obj.apiVersion), obj.kind >>

IsNamespaceKind(obj) == obj.kind = "Namespace" /\ obj.apiVersion = "v1"
IsRepoKind(obj) == obj.kind = "Repo" /\ obj.apiVersion = "configmanagement.gke.io/v1"

\* the bytes of a document: what was read from the stream (src = "stream") or
\* what the encoder produced for a list item (src = "encode"); they spell
\* the object as it was at that time
Bytes(fmt, obj, src) == [format |-> fmt, src |-> src, spells |-> obj]

\* sequences over S of length at most n
SeqUpTo(S, n) == UNION { [1..k -> S] : k \in 0..n }

\* ------------------------------------------------------------ validation

SetNamespaceEmpty_Keep(obj) == obj

\* SetNamespace(""): the metadata.namespace field is removed
SetNamespaceEmpty(obj) == [obj EXCEPT !.namespace = ""]

RECURSIVE validateResource(_)
RECURSIVE EachListItemValidate(_, _, _, _)

\* the callback of validateResourceList run over items i..Len, with the set
\* declaredNamespaces and the variable ns as they stand; r.obj.items is
\* updated in place (the inner resource shares the item's map)
TooManyNamespaces_Three(declared) == Cardinality(declared) > 2

\* len(declaredNamespaces) > 1
TooManyNamespaces(declared) == Cardinality(declared) > 1

EachListItemValidate(r, i, declaredNamespaces, ns) ==
    IF i > Len(r.obj.items)
    THEN [err |-> "", r |-> r, ns |-> ns]
    ELSE LET inner == [r EXCEPT !.obj = r.obj.items[i]]
             declared == declaredNamespaces \cup {inner.obj.namespace}
         IN IF TooManyNamespaces(declared)
            THEN [err |-> "more than one namespace", r |-> r, ns |-> ns]
            ELSE LET v == validateResource(inner)
                     r2 == [r EXCEPT !.obj.items[i] = v.r.obj]
                 IN IF v.err # ""
                    THEN [err |-> v.err, r |-> r2, ns |-> inner.obj.namespace]
                    ELSE EachListItemValidate(r2, i + 1, declared, inner.obj.namespace)

validateResourceList(r) ==
    IF ~r.obj.isList
    THEN [err |-> "non-list resource", r |-> r]
    ELSE LET e == EachListItemValidate(r, 1, {}, "")
         IN IF e.err # ""
            THEN [err |-> e.err, r |-> e.r]
            ELSE [err |-> "", r |-> [e.r EXCEPT !.listNamespaceName = e.ns]]

\* validateResource that also re-encodes the object it cleared into data
validateResource_Reencode(r) ==
    IF r.obj.isList
    THEN validateResourceList(r)
    ELSE IF r.namespaced /\ r.obj.namespace = ""
         THEN [err |-> "missing namespace", r |-> r]
         ELSE IF ~r.namespaced /\ r.obj.namespace # ""
              THEN [err |-> "",
                    r |-> [r EXCEPT !.obj = SetNamespaceEmpty(r.obj),
                                    !.data = Bytes(r.format, SetNamespaceEmpty(r.obj), "encode")]]
              ELSE [err |-> "", r |-> r]

validateResource(r) ==
    IF r.obj.isList
    THEN validateResourceList(r)
    ELSE IF r.namespaced /\ r.obj.namespace = ""
         THEN [err |-> "missing namespace", r |-> r]
         ELSE IF ~r.namespaced /\ r.obj.namespace # ""
              THEN [err |-> "", r |-> [r EXCEPT !.obj = SetNamespaceEmpty(r.obj)]]
              ELSE [err |-> "", r |-> r]

RECURSIVE validateResourcesFrom(_, _)
\* validateResources over resources i..Len: stops at the first error, the
\* resources before it already changed
validateResourcesFrom(resources, i) ==
    IF i > Len(resources)
    THEN [err |-> "", resources |-> resources]
    ELSE LET v == validateResource(resources[i])
             rs == [resources EXCEPT ![i] = v.r]
         IN IF v.err # ""
            THEN [err |-> v.err, resources |-> rs]
            ELSE validateResourcesFrom(rs, i + 1)

validateResources(resources) == validateResourcesFrom(resources, 1)

\* ------------------------------------------------------------- the inputs

\* the objects a decoded document may be: the kinds the claims are about
PlainObjs ==
    { Obj("apps/v1", "Deployment", "foo", ns) : ns \in {"", "ns1"} }
    \cup { Obj("extensions/v1beta1", "Deployment", "foo", "ns1") }
    \cup { Obj("configmanagement.gke.io/v1", "Repo", "foo", ns) : ns \in {"ns1", "ns2"} }
    \cup { Obj("v1", "Namespace", n, "") : n \in {"", "foo"} }
    \cup { Obj("v1", "Namespace", "foo", "ns1") }

ItemObjs == { Obj("apps/v1", "Deployment", "foo", ns) : ns \in {"", "ns1"} }

ListObjs ==
    { ListObj("v1", "List", "", "ns1", its) : its \in SeqUpTo(ItemObjs, MaxItems) }

DocPool == PlainObjs \cup ListObjs

\* what discovery may answer for a kind (inspector.IsNamespaced): the
\* kinds of a cluster with Config Management have one answer, the kind of a
\* list, which the cluster does not serve, either
ScopeAnswers(obj) ==
    CASE obj.kind = "Deployment" -> {TRUE}
      [] obj.kind = "Namespace" -> {FALSE}
      [] obj.kind = "Repo" -> {FALSE}
      [] OTHER -> BOOLEAN

Kinds == { << o.apiVersion, o.kind >> : o \in DocPool \cup ItemObjs }

\* the answers of one cluster: a function of the kind
OracleTables ==
    { t \in [Kinds -> BOOLEAN] :
        \A o \in DocPool \cup ItemObjs : t[<< o.apiVersion, o.kind >>] \in ScopeAnswers(o) }

\* ------------------------------------------------------------------ state

VARIABLES
    pc,                 \* where main is
    expandLists,        \* the --expand-lists flag
    cur,                \* index in Inputs of the file being decoded
    open,               \* decodeResourceManifest is running on Inputs[cur]
    format,             \* its local: the stream's format
    eof,                \* the stream has no more bytes
    resources,          \* its local: the resources decoded so far
    idx,                \* its local: the next index
    ndocs,              \* documents decoded so far, all files together
    files,              \* main's files: input file -> its resources
    existingResources,  \* validateResourceFiles's map GroupKind -> names
    validated,          \* files validateResources has returned nil for
    checked,            \* files whose duplicate loop has finished
    vfile,              \* the file of the running loop iteration, 0 if none
    outputs,            \* main's outputs: namespace -> resources
    writtenNs,          \* the keys of outputs already written
    disk,               \* the WriteFile calls made so far
    fatal,              \* the error main ended on (log.Fatalf), "" if none
    encodeErrors,       \* history: the input files an encode call failed in
    subject,            \* validateResource alone: the resource handed to it
    passes              \* validateResource alone: what each call returned

vars ==
    << pc, expandLists, cur, open, format, eof, resources, idx, ndocs, files,
       existingResources, validated, checked, vfile, outputs, writtenNs, disk,
       fatal, encodeErrors, subject, passes >>

decodeVars == << cur, open, format, eof, resources, idx, ndocs, encodeErrors >>
unitVars == << subject, passes >>
validateVars == << existingResources, validated, checked, vfile >>
writeVars == << outputs, writtenNs, disk >>

\* a resource as decodeResourceManifest builds it (namespaced and
\* listNamespaceName at their zero values)
Resource(i, input, data, fmt, obj) ==
    [idx |-> i, inputFilename |-> input, data |-> data, format |-> fmt,
     obj |-> obj, namespaced |-> FALSE, listNamespaceName |-> ""]

\* main before its first statement
PipelineInit ==
    /\ cur = 1
    /\ open = FALSE
    /\ format = yamlFormat
    /\ eof = FALSE
    /\ resources = << >>
    /\ idx = 0
    /\ ndocs = 0
    /\ files = << >>
    /\ existingResources = << >>
    /\ validated = {}
    /\ checked = {}
    /\ vfile = 0
    /\ outputs = << >>
    /\ writtenNs = {}
    /\ disk = {}
    /\ fatal = ""
    /\ encodeErrors = {}

NoSubject ==
    Resource(0, 0, Bytes(yamlFormat, Obj("", "", "", ""), "stream"), yamlFormat,
             Obj("", "", "", ""))

Init ==
    /\ pc = "decode"
    /\ expandLists \in BOOLEAN
    /\ PipelineInit
    /\ subject = NoSubject
    /\ passes = << >>

\* ---------------------------------------------------------------- decoding

\* os.Open and the head of decodeResourceManifest: GuessJSONStream decides
\* the format from the first bytes
OpenInput ==
    /\ pc = "decode" /\ ~open /\ cur <= Len(Inputs)
    /\ open' = TRUE
    /\ format' \in Inputs[cur].streams
    /\ eof' = FALSE
    /\ resources' = << >>
    /\ idx' = 0
    /\ UNCHANGED << pc, expandLists, cur, ndocs, files, fatal, encodeErrors >>
    /\ UNCHANGED validateVars /\ UNCHANGED writeVars /\ UNCHANGED unitVars

\* the resources the EachListItem callback of decodeResourceManifest appends
\* for the items of a list, the encoder failing on item failAt (0: on none);
\* the callback's error ends the iteration, and is dropped by the caller
ExpandItems(input, fmt, items, i0, failAt) ==
    LET n == IF failAt = 0 THEN Len(items) ELSE failAt - 1
    IN [k \in 1..n |->
          Resource(i0 + k - 1, input, Bytes(fmt, items[k], "encode"), fmt, items[k])]

\* one round of the decode loop that yields a document with apiVersion and
\* kind.  DecodeJSON reads the stream to its end, so nothing follows it.
DecodeDocument ==
    /\ pc = "decode" /\ open /\ ~eof /\ ndocs < MaxDocs
    /\ \E u \in DocPool :
         /\ ndocs' = ndocs + 1
         /\ eof' = (format = jsonFormat)
         /\ IF expandLists /\ u.isList
            THEN \E failAt \in 0..Len(u.items) :
                   LET new == ExpandItems(cur, format, u.items, idx, failAt)
                   IN /\ resources' = resources \o new
                      /\ idx' = idx + Len(new)
                      /\ encodeErrors' =
                           IF failAt = 0 THEN encodeErrors ELSE encodeErrors \cup {cur}
            ELSE /\ resources' =
                      Append(resources,
                             Resource(idx, cur, Bytes(format, u, "stream"), format, u))
                 /\ idx' = idx + 1
                 /\ UNCHANGED encodeErrors
    /\ UNCHANGED << pc, expandLists, cur, open, format, files, fatal >>
    /\ UNCHANGED validateVars /\ UNCHANGED writeVars /\ UNCHANGED unitVars

\* decode returns io.EOF: decodeResourceManifest returns the resources, and
\* main stores them under the input's name
DecodeEOF ==
    /\ pc = "decode" /\ open
    /\ files' = (cur :> resources) @@ files
    /\ open' = FALSE
    /\ cur' = cur + 1
    /\ pc' = IF cur = Len(Inputs) THEN "populate" ELSE "decode"
    /\ UNCHANGED << expandLists, format, eof, resources, idx, ndocs, fatal, encodeErrors >>
    /\ UNCHANGED validateVars /\ UNCHANGED writeVars /\ UNCHANGED unitVars

\* decode returns another error (a chunk that does not parse): log.Fatalf
DecodeError ==
    /\ pc = "decode" /\ open /\ ~eof
    /\ pc' = "fatal"
    /\ fatal' = "decode"
    /\ UNCHANGED << expandLists, files >>
    /\ UNCHANGED decodeVars /\ UNCHANGED validateVars /\ UNCHANGED writeVars /\ UNCHANGED unitVars

\* ---------------------------------------------------------------- discovery

\* populateNamespacedField with the answers t of the cluster
populateNamespacedField(t, fs) ==
    [f \in DOMAIN fs |->
       [i \in DOMAIN fs[f] |->
          [fs[f][i] EXCEPT
             !.namespaced = t[<< fs[f][i].obj.apiVersion, fs[f][i].obj.kind >>]]]]

Populate ==
    /\ pc = "populate"
    /\ \E t \in OracleTables : files' = populateNamespacedField(t, files)
    /\ pc' = "validate"
    /\ UNCHANGED << expandLists, fatal >>
    /\ UNCHANGED decodeVars /\ UNCHANGED validateVars /\ UNCHANGED writeVars /\ UNCHANGED unitVars

\* inspector.IsNamespaced returns an error: log.Fatalf
PopulateError ==
    /\ pc = "populate"
    /\ \E f \in DOMAIN files : files[f] # << >>
    /\ pc' = "fatal"
    /\ fatal' = "discovery"
    /\ UNCHANGED << expandLists, files >>
    /\ UNCHANGED decodeVars /\ UNCHANGED validateVars /\ UNCHANGED writeVars /\ UNCHANGED unitVars

\* --------------------------------------------------- validateResourceFiles

\* existingResources[gk]: nil for a key the map does not hold
ExistingNamespacedNames(existing, gk) ==
    IF gk \in DOMAIN existing THEN existing[gk] ELSE << >>

alreadyContains(list, toFind) == \E k \in DOMAIN list : list[k] = toFind

\* the inner loop of validateResourceFiles over one file's resources: TRUE
\* when it returns the duplicate error.  The loop only reads the map.
DuplicateFound(existing, rs) ==
    \E i \in DOMAIN rs :
        alreadyContains(ExistingNamespacedNames(existing, GroupKind(rs[i].obj)),
                        [name |-> rs[i].obj.name, namespace |-> rs[i].obj.namespace])

\* the map after the inner loop over one file's resources
ExistingAfter(existing, rs) == existing

\* the iteration entered with validateResources left out
ValidateLocal_Skipped ==
    /\ pc = "validate" /\ vfile = 0
    /\ \E f \in DOMAIN files \ checked : vfile' = f
    /\ UNCHANGED << pc, fatal, files, validated >>
    /\ UNCHANGED << expandLists, existingResources, checked >>
    /\ UNCHANGED decodeVars /\ UNCHANGED writeVars /\ UNCHANGED unitVars

\* one iteration of the loop over files, first half: validateResources on a
\* file not yet visited (a Go map is ranged over in any order)
ValidateLocal ==
    /\ pc = "validate" /\ vfile = 0
    /\ \E f \in DOMAIN files \ checked :
         LET v == validateResources(files[f])
         IN /\ files' = [files EXCEPT ![f] = v.resources]
            /\ IF v.err # ""
               THEN /\ pc' = "fatal"
                    /\ fatal' = v.err
                    /\ UNCHANGED << validated, vfile >>
               ELSE /\ pc' = pc
                    /\ UNCHANGED fatal
                    /\ validated' = validated \cup {f}
                    /\ vfile' = f
    /\ UNCHANGED << expandLists, existingResources, checked >>
    /\ UNCHANGED decodeVars /\ UNCHANGED writeVars /\ UNCHANGED unitVars

\* second half: the duplicate loop over the same file; after the last file
\* validateResourceFiles returns nil
GlobalCheck ==
    /\ pc = "validate" /\ vfile # 0
    /\ IF DuplicateFound(existingResources, files[vfile])
       THEN /\ pc' = "fatal"
            /\ fatal' = "duplicate resource"
            /\ UNCHANGED << existingResources, checked, vfile >>
       ELSE /\ existingResources' = ExistingAfter(existingResources, files[vfile])
            /\ checked' = checked \cup {vfile}
            /\ vfile' = 0
            /\ pc' = IF checked' = DOMAIN files THEN "gather" ELSE pc
            /\ UNCHANGED fatal
    /\ UNCHANGED << expandLists, files, validated >>
    /\ UNCHANGED decodeVars /\ UNCHANGED writeVars /\ UNCHANGED unitVars

\* ------------------------------------------------------- gather and write

\* the key without the list case
OutputNamespace_NoListCase(r) ==
    IF IsNamespaceKind(r.obj) THEN r.obj.name ELSE r.obj.namespace

\* the key of outputs a resource is appended under (main, lines 94-101)
OutputNamespace(r) ==
    IF IsNamespaceKind(r.obj) THEN r.obj.name
    ELSE IF r.obj.isList THEN r.listNamespaceName
    ELSE r.obj.namespace

\* the directory under outputDir a resource of outputs[ns] is written in
OutputDir(ns, r) ==
    IF IsRepoKind(r.obj) THEN << "system" >>
    ELSE IF ns = "" THEN << "cluster" >>
    ELSE << "namespaces", ns >>

\* resourceFilename with the index form for every resource
resourceFilename_IndexAlways(r) ==
    [parts |-> << r.obj.kind, ToString(r.idx),
                  InputFileNameStripped(Inputs[r.inputFilename]) >>,
     ext |-> r.format]

\* resourceFilename: the parts joined by "-", and the extension
resourceFilename(r) ==
    IF r.obj.isList
    THEN [parts |-> << r.obj.kind, ToString(r.idx),
                       InputFileNameStripped(Inputs[r.inputFilename]) >>,
          ext |-> r.format]
    ELSE IF IsNamespaceKind(r.obj)
         THEN [parts |-> << "namespace" >>, ext |-> r.format]
         ELSE [parts |-> << r.obj.kind, r.obj.name >>, ext |-> r.format]

Perms(S) ==
    { p \in [1..Cardinality(S) -> S] : \A i, j \in DOMAIN p : i # j => p[i] # p[j] }

\* the resources of the files, the files taken in the given order
Flatten(fs, order) ==
    LET RECURSIVE Go(_)
        Go(k) == IF k > Len(order) THEN << >> ELSE fs[order[k]] \o Go(k + 1)
    IN Go(1)

\* main's outputs after the gather loop over the resources all
GatherOutputs(all) ==
    [ns \in { OutputNamespace(all[i]) : i \in DOMAIN all } |->
       SelectSeq(all, LAMBDA r : OutputNamespace(r) = ns)]

Gather ==
    /\ pc = "gather"
    /\ \E order \in Perms(DOMAIN files) :
         outputs' = GatherOutputs(Flatten(files, order))
    /\ pc' = IF DOMAIN outputs' = {} THEN "done" ELSE "write"
    /\ UNCHANGED << expandLists, files, writtenNs, disk, fatal >>
    /\ UNCHANGED decodeVars /\ UNCHANGED validateVars /\ UNCHANGED unitVars

\* one WriteFile call: where, what, and for which resource of outputs[ns]
\* (no two calls are for the same resource)
WriteCall(ns, r) ==
    [dir |-> OutputDir(ns, r), filename |-> resourceFilename(r),
     data |-> r.data, ns |-> ns, r |-> r]

\* one round of the loop over outputs: every resource of a namespace written
WriteNamespace ==
    /\ pc = "write"
    /\ \E ns \in DOMAIN outputs \ writtenNs :
         /\ disk' = disk \cup { WriteCall(ns, outputs[ns][k]) : k \in DOMAIN outputs[ns] }
         /\ writtenNs' = writtenNs \cup {ns}
         /\ pc' = IF writtenNs' = DOMAIN outputs THEN "done" ELSE pc
    /\ UNCHANGED << expandLists, files, outputs, fatal >>
    /\ UNCHANGED decodeVars /\ UNCHANGED validateVars /\ UNCHANGED unitVars

\* MkdirAll or a WriteFile of the round fails, after n files of it were
\* written: log.Fatalf
WriteError ==
    /\ pc = "write"
    /\ \E ns \in DOMAIN outputs \ writtenNs :
         \E n \in 0..(Len(outputs[ns]) - 1) :
            disk' = disk \cup { WriteCall(ns, outputs[ns][k]) : k \in 1..n }
    /\ pc' = "fatal"
    /\ fatal' = "io"
    /\ UNCHANGED << expandLists, files, outputs, writtenNs >>
    /\ UNCHANGED decodeVars /\ UNCHANGED validateVars /\ UNCHANGED unitVars

Next ==
    \/ OpenInput
    \/ DecodeDocument
    \/ DecodeEOF
    \/ DecodeError
    \/ Populate
    \/ PopulateError
    \/ ValidateLocal
    \/ GlobalCheck
    \/ Gather
    \/ WriteNamespace
    \/ WriteError

Spec == Init /\ [][Next]_vars

\* --------------------------------------------- validateResource on its own

UnitNamespaces == {"", "ns1", "ns2"}

UnitPlainObjs ==
    { Obj(k[1], k[2], n, ns) :
        k \in { << "apps/v1", "Deployment" >>, << "v1", "Namespace" >>,
                << "configmanagement.gke.io/v1", "Repo" >> },
        n \in {"", "foo"}, ns \in UnitNamespaces }

UnitItemObjs == { Obj("apps/v1", "Deployment", "foo", ns) : ns \in UnitNamespaces }

UnitListObjs ==
    { ListObj("v1", "List", "", ns, its) :
        ns \in {"", "ns1"}, its \in SeqUpTo(UnitItemObjs, MaxItems) }

\* a resource as populateNamespacedField leaves it, of either scope
Subjects ==
    { [Resource(0, 1, Bytes(yamlFormat, o, "stream"), yamlFormat, o)
         EXCEPT !.namespaced = b] :
        o \in UnitPlainObjs \cup UnitListObjs, b \in BOOLEAN }

InitValidate ==
    /\ pc = "unit"
    /\ expandLists = FALSE
    /\ PipelineInit
    /\ subject \in Subjects
    /\ passes = << >>

\* validateResource(&r) called once more on the same resource
ValidateSubject ==
    /\ pc = "unit" /\ Len(passes) < MaxPasses
    /\ LET r == IF passes = << >> THEN subject ELSE passes[Len(passes)].r
       IN passes' = Append(passes, validateResource(r))
    /\ UNCHANGED << pc, expandLists, files, fatal, subject >>
    /\ UNCHANGED decodeVars /\ UNCHANGED validateVars /\ UNCHANGED writeVars

NextValidate == ValidateSubject

SpecValidate == InitValidate /\ [][NextValidate]_vars

\* ------------------------------------------------------------------ claims

\* every resource of the catalog, as << file, position >>
CatalogRefs == UNION { { << f, i >> : i \in DOMAIN files[f] } : f \in DOMAIN files }

Res(x) == files[x[1]][x[2]]

\* validateResourceFiles has returned nil
ValidationPassed ==
    pc \in {"gather", "write", "done"} \/ (pc = "fatal" /\ fatal = "io")

SameIdentity(a, b) ==
    /\ GroupKind(a.obj) = GroupKind(b.obj)
    /\ a.obj.name = b.obj.name
    /\ a.obj.namespace = b.obj.namespace

\* C1: once validateResourceFiles has returned nil, no two resources of the
\* catalog have the same Group-Kind, name and namespace (a catalog with two
\* such resources ends in the duplicate error and writes nothing).
C1_GlobalUniqueness ==
    ValidationPassed =>
        \A x, y \in CatalogRefs : x # y => ~SameIdentity(Res(x), Res(y))

\* the writes of resources that came out of a list expansion
ExpandedWrites == { w \in disk : w.data.src = "encode" }

IndexFilename(w) ==
    [parts |-> << w.r.obj.kind, ToString(w.r.idx),
                  InputFileNameStripped(Inputs[w.r.inputFilename]) >>,
     ext |-> w.r.format]

NameFilename(w) ==
    IF IsNamespaceKind(w.r.obj)
    THEN [parts |-> << "namespace" >>, ext |-> w.r.format]
    ELSE [parts |-> << w.r.obj.kind, w.r.obj.name >>, ext |-> w.r.format]

\* C2 as stated: every resource expanded out of a list is written under
\* <Kind>-<index>-<input base name>.<format>.
C2_ExpandedItemIndexName ==
    \A w \in ExpandedWrites : w.filename = IndexFilename(w)

\* C2 amended: a resource expanded out of a list (an item that is not itself
\* a list) is written under <Kind>-<name>.<format>, namespace.<format> for a
\* v1 Namespace; the <Kind>-<index>-<input base name>.<format> form is what
\* list-typed resources, kept whole, are written under.
C2_ExpandedItemNameForm ==
    \A w \in disk :
        /\ w \in ExpandedWrites => w.filename = NameFilename(w)
        /\ w.r.obj.isList => w.filename = IndexFilename(w)
        /\ ~w.r.obj.isList => w.filename = NameFilename(w)

\* C2 witness: an expanded item with index 1 has been written
C2_Witness ==
    \E w \in ExpandedWrites : expandLists /\ w.r.idx = 1 /\ pc = "done"

\* C3: no two WriteFile calls of a run have the same output path.
C3_NoPathCollision ==
    \A v, w \in disk :
        v # w => << v.dir, v.filename >> # << w.dir, w.filename >>

DeclaredItemNamespaces(r) ==
    { r.data.spells.items[k].namespace : k \in DOMAIN r.data.spells.items }

SubjectItemNamespaces ==
    { subject.obj.items[k].namespace : k \in DOMAIN subject.obj.items }

\* the one namespace the items share, "" for a list without items
SharedNamespace(nss) == IF nss = {} THEN "" ELSE CHOOSE n \in nss : TRUE

\* C5 as stated: validateResourceList succeeds exactly when the items of the
\* list declare one and the same namespace (possibly empty), whatever the
\* list's namespaced flag; on success listNamespaceName is that namespace.
C5_ListHomogeneityIff ==
    (subject.obj.isList /\ Len(passes) >= 1) =>
        /\ passes[1].err = "" <=> Cardinality(SubjectItemNamespaces) <= 1
        /\ passes[1].err = "" =>
              passes[1].r.listNamespaceName = SharedNamespace(SubjectItemNamespaces)

\* C5 amended: for a list whose items are not lists, validateResourceList
\* succeeds exactly when the items declare one and the same namespace and,
\* if the list is namespaced, that namespace is not empty (each item goes
\* through validateResource with the list's flag); two distinct declared
\* namespaces are an error, and on success listNamespaceName is the shared
\* declared namespace ("" for a list without items).
C5_ListHomogeneityScoped ==
    (subject.obj.isList /\ Len(passes) >= 1) =>
        /\ passes[1].err = "" <=>
              /\ Cardinality(SubjectItemNamespaces) <= 1
              /\ subject.namespaced => "" \notin SubjectItemNamespaces
        /\ Cardinality(SubjectItemNamespaces) > 1 => passes[1].err # ""
        /\ passes[1].err = "" =>
              passes[1].r.listNamespaceName = SharedNamespace(SubjectItemNamespaces)

\* C5 witness: a namespaced list of two items that both declare no
\* namespace has been rejected
C5_Witness ==
    /\ subject.obj.isList /\ subject.namespaced /\ Len(passes) >= 1
    /\ Len(subject.obj.items) = 2 /\ SubjectItemNamespaces = {""}
    /\ passes[1].err = "missing namespace"

\* C6: a file whose list expansion hit an encode error is never returned
\* by decodeResourceManifest as decoded (main does not store it in files).
C6_EncodeFailureIsFatal == \A f \in DOMAIN files : f \notin encodeErrors

\* the directory the classification rule as stated gives a resource
StatedDir(r) ==
    IF IsRepoKind(r.obj) THEN << "system" >>
    ELSE IF IsNamespaceKind(r.obj) THEN << "namespaces", r.obj.name >>
    ELSE LET b == IF r.obj.isList THEN r.listNamespaceName ELSE r.obj.namespace
         IN IF b = "" THEN << "cluster" >> ELSE << "namespaces", b >>

\* the same with the bucket of a v1 Namespace, its name, mapped like any other
BucketDir(r) ==
    IF IsRepoKind(r.obj) THEN << "system" >>
    ELSE LET b == IF IsNamespaceKind(r.obj) THEN r.obj.name
                  ELSE IF r.obj.isList THEN r.listNamespaceName
                  ELSE r.obj.namespace
         IN IF b = "" THEN << "cluster" >> ELSE << "namespaces", b >>

\* C7 as stated: a written resource goes to system/ if it is a Repo, else to
\* namespaces/<metadata.name> if it is a v1 Namespace, else to cluster/ or
\* namespaces/<b>/ for b its listNamespaceName (a list) or its namespace.
C7_Classification ==
    \A w \in disk : w.dir = StatedDir(w.r)

\* C7 amended: a written resource goes to system/ if it is a Repo; else its
\* bucket b is metadata.name for a v1 Namespace, listNamespaceName for a
\* list, metadata.namespace for any other, and it goes to cluster/ when b
\* is empty (a v1 Namespace without a name included) and to namespaces/<b>/
\* when it is not.
C7_ClassificationByBucket ==
    \A w \in disk : w.dir = BucketDir(w.r)

\* C7 witness: the run is done, having written a list under the namespace
\* of its items and a v1 Namespace under the namespace it names
C7_Witness ==
    /\ pc = "done"
    /\ \E w \in disk :
          /\ w.r.obj.isList /\ w.r.obj.namespace # ""
          /\ w.r.listNamespaceName = "" /\ w.dir = << "cluster" >>
    /\ \E w \in disk :
          IsNamespaceKind(w.r.obj) /\ w.dir = << "namespaces", "foo" >>

\* C8: a second validateResource on a non-namespaced resource that passed a
\* first one succeeds and changes nothing (the namespaces of the resource
\* and of its items, and listNamespaceName).
C8_NormalizationIdempotent ==
    (~subject.namespaced /\ Len(passes) >= 2 /\ passes[1].err = "") =>
        /\ passes[2].err = ""
        /\ passes[2].r = passes[1].r

\* C9 as stated: validateResources has returned for every file of the
\* catalog before the duplicate loop has run on any file.
C9_LocalBeforeGlobal == checked # {} => validated = DOMAIN files

\* C9 amended: the files are visited one at a time, validateResources on a
\* file and then the duplicate loop on that file: a file is validated
\* before its own resources are examined, and the next file is not
\* validated until the duplicate loop of the one before has finished.
C9_LocalBeforeOwnGlobal ==
    /\ checked \subseteq validated
    /\ vfile # 0 => vfile \in validated
    /\ validated \ checked \subseteq {vfile}

\* C9 witness: the duplicate loop has finished on one file holding a
\* resource while the other file, holding one too, is not yet validated
C9_Witness ==
    /\ pc = "validate" /\ Cardinality(checked) = 1 /\ validated = checked
    /\ \A f \in DOMAIN files : files[f] # << >>

\* the fields of a resource validation must leave alone
SameButNamespaces(a, b) ==
    /\ a.data = b.data /\ a.idx = b.idx /\ a.inputFilename = b.inputFilename
    /\ a.format = b.format /\ a.namespaced = b.namespaced
    /\ a.obj.apiVersion = b.obj.apiVersion /\ a.obj.kind = b.obj.kind
    /\ a.obj.name = b.obj.name /\ a.obj.isList = b.obj.isList
    /\ Len(a.obj.items) = Len(b.obj.items)

\* C10: a step of validateResourceFiles changes of a resource nothing but
\* metadata.namespace (its own, its items') and listNamespaceName; data, idx,
\* inputFilename and format never change once the file is decoded, and every
\* WriteFile call is handed the data its resource holds in the catalog.
C10_ValidationFrame ==
    /\ [][ /\ DOMAIN files \subseteq DOMAIN files'
           /\ \A f \in DOMAIN files :
                 /\ DOMAIN files'[f] = DOMAIN files[f]
                 /\ \A i \in DOMAIN files[f] :
                       /\ files'[f][i].data = files[f][i].data
                       /\ files'[f][i].idx = files[f][i].idx
                       /\ files'[f][i].inputFilename = files[f][i].inputFilename
                       /\ files'[f][i].format = files[f][i].format
                       /\ pc = "validate" => SameButNamespaces(files[f][i], files'[f][i])
         ]_vars
    /\ [](\A w \in disk :
             \E x \in CatalogRefs : Res(x) = w.r /\ w.data = Res(x).data)

\* C10 witness: a resource whose namespace validation cleared has been
\* written with the bytes that still spell the namespace
C10_Witness ==
    \E w \in disk :
        /\ ~w.r.obj.isList
        /\ w.r.obj.namespace = "" /\ w.data.spells.namespace # ""
        /\ w.data.src = "stream"

====
